---- MODULE Spec2Model ----
(***************************************************************************)
(* Model of census/downloadData.py: the bulk census downloader.  A run     *)
(* parses its arguments, creates the output directories, and then, region  *)
(* by region, retrieves the TIGER archive, unzips it flat into tiger/,     *)
(* removes the archive and retrieves the LODES rac and wac files.  Every   *)
(* download goes through retrieve(), a bounded retry loop with a fixed     *)
(* pause.                                                                  *)
(*                                                                         *)
(* Strings the script inspects character by character (region codes,      *)
(* archive member names) are sequences of one-character strings.           *)
(***************************************************************************)
EXTENDS Integers, Sequences, FiniteSets, TLC

VARIABLES
    run,            \* number of invocations of the script so far
    dirsAtLaunch,   \* subdirectories of outDir present when this run began
    argv,           \* argv[2:] of the current run, as typed
    states,         \* the work list (line 76 / 81)
    invalidStates,  \* line 84
    stdout,         \* what line 87 printed
    pc,             \* position of the script
    exc,            \* the exception that ended the run, or "none"
    pos,            \* 1-based index of the for loop of line 108 into states
    dirs,           \* subdirectories of outDir that exist
    tiger,          \* files under outDir/tiger: name -> content
    site,           \* which call of retrieve is active: tiger, rac, wac
    url, path,      \* arguments of the active retrieve call
    task,           \* state of the active retrieve call
    i,              \* loop variable of retrieve (line 96)
    attempts,       \* calls of urlretrieve made by the active retrieve call
    failures,       \* of which raised
    pauses,         \* calls of sleep made by the active retrieve call
    slept,          \* total time slept by the active retrieve call
    retval,         \* value the last retrieve call returned
    tigerResult,    \* how the archive retrieval of the current region ended
    calls,          \* retrieve calls issued for the current region
    anyRetrieve,    \* whether this run has called retrieve
    regionSteps,    \* steps completed for the current region, in order
    extracted,      \* members of the archive unzipped for the current region
    processed       \* regions whose processing reached line 156, in order

vars == <<run, dirsAtLaunch, argv, states, invalidStates, stdout, pc, exc, pos,
          dirs, tiger, site, url, path, task, i, attempts, failures, pauses,
          slept, retval, tigerResult, calls, anyRetrieve, regionSteps,
          extracted, processed>>

main == <<run, dirsAtLaunch, argv, states, invalidStates, stdout>>
call == <<site, url, path, i, attempts, failures, pauses, slept>>
hist == <<tigerResult, calls, anyRetrieve, regionSteps, extracted, processed>>

----------------------------------------------------------------------------
(* Bounds of the model *)

MaxArgs == 2        \* region arguments on a command line
MaxMembers == 2     \* member entries of a downloaded archive
MaxRuns == 2        \* invocations on the same output path

----------------------------------------------------------------------------
(* Static data *)

K(a, b) == <<a, b>>

fipsTable == <<
    <<K("A","K"), "02">>, <<K("A","L"), "01">>, <<K("A","R"), "05">>, <<K("A","S"), "60">>, <<K("A","Z"), "04">>,
    <<K("C","A"), "06">>, <<K("C","O"), "08">>, <<K("C","T"), "09">>, <<K("D","C"), "11">>, <<K("D","E"), "10">>,
    <<K("F","L"), "12">>, <<K("G","A"), "13">>, <<K("G","U"), "66">>, <<K("H","I"), "15">>, <<K("I","A"), "19">>,
    <<K("I","D"), "16">>, <<K("I","L"), "17">>, <<K("I","N"), "18">>, <<K("K","S"), "20">>, <<K("K","Y"), "21">>,
    <<K("L","A"), "22">>, <<K("M","A"), "25">>, <<K("M","D"), "24">>, <<K("M","E"), "23">>, <<K("M","I"), "26">>,
    <<K("M","N"), "27">>, <<K("M","O"), "29">>, <<K("M","S"), "28">>, <<K("M","T"), "30">>, <<K("N","C"), "37">>,
    <<K("N","D"), "38">>, <<K("N","E"), "31">>, <<K("N","H"), "33">>, <<K("N","J"), "34">>, <<K("N","M"), "35">>,
    <<K("N","V"), "32">>, <<K("N","Y"), "36">>, <<K("O","H"), "39">>, <<K("O","K"), "40">>, <<K("O","R"), "41">>,
    <<K("P","A"), "42">>, <<K("P","R"), "72">>, <<K("R","I"), "44">>, <<K("S","C"), "45">>, <<K("S","D"), "46">>,
    <<K("T","N"), "47">>, <<K("T","X"), "48">>, <<K("U","T"), "49">>, <<K("V","A"), "51">>, <<K("V","I"), "78">>,
    <<K("V","T"), "50">>, <<K("W","A"), "53">>, <<K("W","I"), "55">>, <<K("W","V"), "54">>, <<K("W","Y"), "56">>
>>

\* fipsCodes, the dict of lines 16-72
fipsCodes == [c \in {fipsTable[n][1] : n \in 1..Len(fipsTable)} |->
                 (CHOOSE e \in {fipsTable[n] : n \in 1..Len(fipsTable)} : e[1] = c)[2]]

\* fipsCodes.keys(): the keys in insertion order
Keys == [n \in 1..Len(fipsTable) |-> fipsTable[n][1]]

LowerCase == <<"a","b","c","d","e","f","g","h","i","j","k","l","m",
               "n","o","p","q","r","s","t","u","v","w","x","y","z">>
UpperCase == <<"A","B","C","D","E","F","G","H","I","J","K","L","M",
               "N","O","P","Q","R","S","T","U","V","W","X","Y","Z">>

UpperChar(c) == IF \E n \in 1..26 : LowerCase[n] = c
                THEN UpperCase[CHOOSE n \in 1..26 : LowerCase[n] = c]
                ELSE c
LowerChar(c) == IF \E n \in 1..26 : UpperCase[n] = c
                THEN LowerCase[CHOOSE n \in 1..26 : UpperCase[n] = c]
                ELSE c

\* Upper without the case normalisation
UpperIdentity(s) == s

\* str.upper() and str.lower()
Upper(s) == [n \in 1..Len(s) |-> UpperChar(s[n])]
Lower(s) == [n \in 1..Len(s) |-> LowerChar(s[n])]

ALL == <<"A", "L", "L">>

\* range(50) of line 96
MaxAttempts == 50
\* sleep(5) of line 102
Backoff == 5

DirNames == {"tiger", "jobs", "workforce"}

----------------------------------------------------------------------------
(* Inputs *)

\* Region arguments a user may type
RawArgs == { <<"c","a">>, <<"P","r">>, <<"x","x">>, <<"a","L","l">> }

ArgLists == UNION { [1..n -> RawArgs] : n \in 1..MaxArgs }

\* Member names a served archive may hold: a plain file, nested files, and
\* a directory entry
MemberNames == { <<"a">>, <<"d","/","a">>, <<"d","/","e","/","b">>, <<"d","/">> }

Archives == UNION { [1..n -> MemberNames] : n \in 0..MaxMembers }

Data == [kind |-> "data", members |-> <<>>]
Partial == [kind |-> "partial", members |-> <<>>]
\* A file a completed transfer wrote; what it holds is seen when it is read
Fetched == [kind |-> "fetched", members |-> <<>>]
Zip(m) == [kind |-> "zip", members |-> m]

NoUrl == [kind |-> "none", key |-> <<>>, year |-> 0]
NoPath == [dir |-> "none", state |-> <<>>, year |-> 0, ext |-> "none"]

----------------------------------------------------------------------------
(* Helpers *)

\* Basename keeping the member's internal directory path
BasenameWhole(p) == p

\* os.path.split(p)[-1]: what follows the last slash
Basename(p) ==
    LET slashes == {n \in 1..Len(p) : p[n] = "/"}
        last == IF slashes = {} THEN 0
                ELSE CHOOSE n \in slashes : \A m \in slashes : m <= n
    IN  SubSeq(p, last + 1, Len(p))

\* "{0}.zip".format(state)
ZipName(state) == state \o <<".", "z", "i", "p">>

\* open(dest, 'wb') and write: create or replace one file
WriteFile(files, name, content) ==
    [n \in (DOMAIN files) \cup {name} |-> IF n = name THEN content ELSE files[n]]

\* os.remove
RemoveFile(files, name) == [n \in (DOMAIN files) \ {name} |-> files[n]]

\* The loop of lines 119-124 over the members still to be written.  A
\* member with an empty base name (a directory entry) makes dest the tiger
\* directory itself, and open() raises.
RECURSIVE Extract(_, _)
Extract(members, files) ==
    IF members = <<>> THEN [files |-> files, ok |-> TRUE]
    ELSE LET name == Basename(Head(members))
         IN  IF name = <<>> THEN [files |-> files, ok |-> FALSE]
             ELSE Extract(Tail(members), WriteFile(files, name, Data))

\* Year without the prior-year exception for AK and SD
YearNoException(state) ==
    IF state = <<"P","R">> \/ state = <<"V","I">> THEN 0 ELSE 2017

\* Lines 136-143: the vintage of LODES data, 0 for none
Year(state) ==
    IF state = <<"A","K">> \/ state = <<"S","D">> THEN 2016
    ELSE IF state = <<"P","R">> \/ state = <<"V","I">> THEN 0
    ELSE 2017

\* Lines 113-114, 149-150, 153-154: the arguments of the three calls
TigerUrl(state) == [kind |-> "tiger", key |-> fipsCodes[state], year |-> 2010]
TigerPath(state) == [dir |-> "tiger", state |-> state, year |-> 0, ext |-> "zip"]
RacUrl(state, year) == [kind |-> "rac", key |-> Lower(state), year |-> year]
RacPath(state, year) == [dir |-> "workforce", state |-> state, year |-> year, ext |-> "rac.csv.gz"]
WacUrl(state, year) == [kind |-> "wac", key |-> Lower(state), year |-> year]
WacPath(state, year) == [dir |-> "jobs", state |-> state, year |-> year, ext |-> "wac.csv.gz"]

\* AfterCall going on to the LODES downloads before the archive is unzipped
AfterCallLodesFirst(s) ==
    IF s = "tiger" THEN "lodes" ELSE IF s = "rac" THEN "wac" ELSE "endregion"

\* The statement that follows each call of retrieve
AfterCall(s) == IF s = "tiger" THEN "unzip" ELSE IF s = "rac" THEN "wac" ELSE "endregion"

\* The step a finished retrieve call completes
StepOf(s) == IF s = "tiger" THEN "archive" ELSE s

\* Entering retrieve(u, p) from call site s
CallRetrieve(s, u, p) ==
    /\ pc' = "retrieve"
    /\ site' = s
    /\ url' = u
    /\ path' = p
    /\ task' = "PENDING"
    /\ i' = 0
    /\ attempts' = 0
    /\ failures' = 0
    /\ pauses' = 0
    /\ slept' = 0
    /\ calls' = calls + 1
    /\ anyRetrieve' = TRUE

----------------------------------------------------------------------------
(* The script *)

Init ==
    /\ run = 0
    /\ dirs \in SUBSET DirNames
    /\ dirsAtLaunch = dirs
    /\ argv = <<>>
    /\ states = <<>>
    /\ invalidStates = <<>>
    /\ stdout = <<>>
    /\ pc = "idle"
    /\ exc = "none"
    /\ pos = 1
    /\ tiger = <<>>
    /\ site = "none"
    /\ url = NoUrl
    /\ path = NoPath
    /\ task = "NONE"
    /\ i = 0
    /\ attempts = 0
    /\ failures = 0
    /\ pauses = 0
    /\ slept = 0
    /\ retval = "None"
    /\ tigerResult = "none"
    /\ calls = 0
    /\ anyRetrieve = FALSE
    /\ regionSteps = <<>>
    /\ extracted = <<>>
    /\ processed = <<>>

\* Lines 75-87: the script is started on the output path
Launch(args) ==
    /\ pc = "idle"
    /\ run < MaxRuns
    /\ LET upper == [n \in 1..Len(args) |-> Upper(args[n])]
           list == IF Len(upper) = 1 /\ upper[1] = ALL THEN Keys ELSE upper
           invalid == SelectSeq(list, LAMBDA s : s \notin DOMAIN fipsCodes)
       IN  /\ states' = list
           /\ invalidStates' = invalid
           /\ stdout' = IF Len(invalid) > 0 THEN <<invalid>> ELSE <<>>
    /\ run' = run + 1
    /\ argv' = args
    /\ dirsAtLaunch' = dirs
    /\ pc' = "mkdirs"
    /\ UNCHANGED <<exc, pos, dirs, tiger, call, task, retval, hist>>

\* The process ends, at the end of the script or by an uncaught exception:
\* what it held in memory is gone, what it wrote to disk stays
Exit ==
    /\ pc \in {"done", "aborted"}
    /\ pc' = "idle"
    /\ argv' = <<>>
    /\ states' = <<>>
    /\ invalidStates' = <<>>
    /\ stdout' = <<>>
    /\ dirsAtLaunch' = dirs
    /\ exc' = "none"
    /\ pos' = 1
    /\ site' = "none"
    /\ url' = NoUrl
    /\ path' = NoPath
    /\ tigerResult' = "none"
    /\ calls' = 0
    /\ anyRetrieve' = FALSE
    /\ regionSteps' = <<>>
    /\ extracted' = <<>>
    /\ processed' = <<>>
    /\ UNCHANGED <<run, dirs, tiger, task, i, attempts, failures, pauses,
                   slept, retval>>

DirOrder == <<"tiger", "jobs", "workforce">>

\* MakeDirs as os.makedirs(..., exist_ok=True) would behave
MakeDirsExistOk ==
    /\ pc = "mkdirs"
    /\ dirs' = dirs \cup {DirOrder[n] : n \in 1..3}
    /\ pc' = "loop"
    /\ exc' = "none"
    /\ UNCHANGED <<main, pos, tiger, call, task, retval, hist>>

\* Lines 90-92: three os.makedirs calls, each raising if its leaf exists
MakeDirs ==
    /\ pc = "mkdirs"
    /\ LET clash == {n \in 1..3 : DirOrder[n] \in dirs}
       IN  IF clash = {}
           THEN /\ dirs' = dirs \cup {DirOrder[n] : n \in 1..3}
                /\ pc' = "loop"
                /\ exc' = "none"
           ELSE LET first == CHOOSE n \in clash : \A m \in clash : n <= m
                IN  /\ dirs' = dirs \cup {DirOrder[n] : n \in 1..(first - 1)}
                    /\ pc' = "aborted"
                    /\ exc' = "FileExistsError"
    /\ UNCHANGED <<main, pos, tiger, call, task, retval, hist>>

\* Line 108, list exhausted: the script ends
Finish ==
    /\ pc = "loop"
    /\ pos > Len(states)
    /\ pc' = "done"
    /\ UNCHANGED <<main, exc, pos, dirs, tiger, call, task, retval, hist>>

\* Lines 108-114: next region, code lookup, call of retrieve for the archive
BeginRegion ==
    /\ pc = "loop"
    /\ pos <= Len(states)
    /\ LET state == states[pos]
       IN  IF state \in DOMAIN fipsCodes
           THEN /\ CallRetrieve("tiger", TigerUrl(state), TigerPath(state))
                /\ exc' = "none"
           ELSE /\ pc' = "aborted"
                /\ exc' = "KeyError"
                /\ UNCHANGED <<call, task, calls, anyRetrieve>>
    /\ UNCHANGED <<main, pos, dirs, tiger, retval, tigerResult, regionSteps,
                   extracted, processed>>

----------------------------------------------------------------------------
(* retrieve, lines 95-104 *)

\* The value of i in the next iteration of for i in range(50)
NextI == IF task = "PENDING" THEN 0 ELSE i + 1

\* Lines 96-99: the next iteration begins and urlretrieve is called
StartAttempt ==
    /\ pc = "retrieve"
    /\ task \in {"PENDING", "BACKOFF"}
    /\ NextI < MaxAttempts
    /\ i' = NextI
    /\ task' = "ATTEMPTING"
    /\ attempts' = attempts + 1
    /\ UNCHANGED <<main, pc, exc, pos, dirs, tiger, site, url, path, failures,
                   pauses, slept, retval, hist>>

\* What a transfer that did not raise may have left at the destination:
\* any archive, or a short or corrupt file (nothing validates it)
Served == {Zip(a) : a \in Archives} \cup {Partial}

\* AttemptSucceeds without the break: the loop goes on to its next
\* iteration and transfers again, until range(50) is used up
AttemptSucceedsNoBreak ==
    /\ pc = "retrieve"
    /\ task = "ATTEMPTING"
    /\ IF i + 1 < MaxAttempts
       THEN /\ task' = "ATTEMPTING"
            /\ i' = i + 1
            /\ attempts' = attempts + 1
       ELSE /\ task' = "SUCCEEDED"
            /\ UNCHANGED <<i, attempts>>
    /\ IF site = "tiger"
       THEN tiger' = WriteFile(tiger, ZipName(path.state), Fetched)
       ELSE UNCHANGED tiger
    /\ UNCHANGED <<main, pc, exc, pos, dirs, site, url, path, failures,
                   pauses, slept, retval, hist>>

\* Lines 99, 103-104: urlretrieve returns; break
AttemptSucceeds ==
    /\ pc = "retrieve"
    /\ task = "ATTEMPTING"
    /\ task' = "SUCCEEDED"
    /\ IF site = "tiger"
       THEN tiger' = WriteFile(tiger, ZipName(path.state), Fetched)
       ELSE UNCHANGED tiger
    /\ UNCHANGED <<main, pc, exc, pos, dirs, call, retval, hist>>

\* Lines 99-101: urlretrieve raises, before or after it began to write
AttemptFails ==
    /\ pc = "retrieve"
    /\ task = "ATTEMPTING"
    /\ task' = "FAILED"
    /\ failures' = failures + 1
    /\ IF site = "tiger"
       THEN \/ UNCHANGED tiger
            \/ tiger' = WriteFile(tiger, ZipName(path.state), Partial)
       ELSE UNCHANGED tiger
    /\ UNCHANGED <<main, pc, exc, pos, dirs, site, url, path, i, attempts,
                   pauses, slept, retval, hist>>

\* Sleep with a pause that grows with the attempt number
SleepGrowing ==
    /\ pc = "retrieve"
    /\ task = "FAILED"
    /\ task' = "BACKOFF"
    /\ pauses' = pauses + 1
    /\ slept' = slept + Backoff * (i + 1)
    /\ UNCHANGED <<main, pc, exc, pos, dirs, tiger, site, url, path, i,
                   attempts, failures, retval, hist>>

\* Line 102: sleep(5)
Sleep ==
    /\ pc = "retrieve"
    /\ task = "FAILED"
    /\ task' = "BACKOFF"
    /\ pauses' = pauses + 1
    /\ slept' = slept + Backoff
    /\ UNCHANGED <<main, pc, exc, pos, dirs, tiger, site, url, path, i,
                   attempts, failures, retval, hist>>

\* Exhaust surfacing the exhaustion to the caller as an exception
ExhaustRaises ==
    /\ pc = "retrieve"
    /\ task \in {"PENDING", "BACKOFF"}
    /\ NextI >= MaxAttempts
    /\ task' = "EXHAUSTED"
    /\ pc' = "aborted"
    /\ exc' = "RetriesExhausted"
    /\ UNCHANGED <<main, pos, dirs, tiger, call, retval, hist>>

\* Line 96: range(50) is used up and the loop ends
Exhaust ==
    /\ pc = "retrieve"
    /\ task \in {"PENDING", "BACKOFF"}
    /\ NextI >= MaxAttempts
    /\ task' = "EXHAUSTED"
    /\ UNCHANGED <<main, pc, exc, pos, dirs, tiger, call, retval, hist>>

\* retrieve returns (None, either way) and the caller goes on
Return ==
    /\ pc = "retrieve"
    /\ task \in {"SUCCEEDED", "EXHAUSTED"}
    /\ retval' = "None"
    /\ pc' = AfterCall(site)
    /\ tigerResult' = IF site = "tiger" THEN task ELSE tigerResult
    /\ regionSteps' = Append(regionSteps, StepOf(site))
    /\ task' = "NONE"
    /\ i' = 0
    /\ attempts' = 0
    /\ failures' = 0
    /\ pauses' = 0
    /\ slept' = 0
    /\ UNCHANGED <<main, exc, pos, dirs, tiger, site, url, path, calls,
                   anyRetrieve, extracted, processed>>

----------------------------------------------------------------------------
(* The rest of the loop body, lines 116-156 *)

\* Lines 118-124: open the archive and write every member under tiger/.
\* The bytes a completed transfer left are first looked at here.
Unzip ==
    /\ pc = "unzip"
    /\ LET zipout == ZipName(states[pos])
       IN  IF zipout \notin DOMAIN tiger
           THEN /\ pc' = "aborted"
                /\ exc' = "FileNotFoundError"
                /\ UNCHANGED <<tiger, extracted, regionSteps>>
           ELSE \E c \in (IF tiger[zipout].kind = "fetched" THEN Served ELSE {Partial}) :
                IF c.kind # "zip"
                THEN /\ pc' = "aborted"
                     /\ exc' = "BadZipFile"
                     /\ UNCHANGED <<tiger, extracted, regionSteps>>
                ELSE LET r == Extract(c.members, tiger)
                     IN  /\ tiger' = r.files
                         /\ IF r.ok
                            THEN /\ pc' = "remove"
                                 /\ exc' = "none"
                                 /\ extracted' = c.members
                                 /\ regionSteps' = Append(regionSteps, "extract")
                            ELSE /\ pc' = "aborted"
                                 /\ exc' = "IsADirectoryError"
                                 /\ UNCHANGED <<extracted, regionSteps>>
    /\ UNCHANGED <<main, pos, dirs, call, task, retval, tigerResult, calls,
                   anyRetrieve, processed>>

\* Line 127: os.remove(zipout)
Remove ==
    /\ pc = "remove"
    /\ tiger' = RemoveFile(tiger, ZipName(states[pos]))
    /\ regionSteps' = Append(regionSteps, "remove")
    /\ pc' = "lodes"
    /\ UNCHANGED <<main, exc, pos, dirs, call, task, retval, tigerResult,
                   calls, anyRetrieve, extracted, processed>>

\* Lines 136-150: choose the vintage; call retrieve for the rac file, or skip
SelectYear ==
    /\ pc = "lodes"
    /\ LET state == states[pos]
           year == Year(state)
       IN  IF year # 0
           THEN CallRetrieve("rac", RacUrl(state, year), RacPath(state, year))
           ELSE /\ pc' = "endregion"
                /\ UNCHANGED <<call, task, calls, anyRetrieve>>
    /\ extracted' = <<>>
    /\ UNCHANGED <<main, exc, pos, dirs, tiger, retval, tigerResult,
                   regionSteps, processed>>

\* Lines 153-154: call retrieve for the wac file
CallWac ==
    /\ pc = "wac"
    /\ LET state == states[pos]
           year == Year(state)
       IN  CallRetrieve("wac", WacUrl(state, year), WacPath(state, year))
    /\ UNCHANGED <<main, exc, pos, dirs, tiger, retval, tigerResult,
                   regionSteps, extracted, processed>>

\* Line 156, and back to line 108
EndRegion ==
    /\ pc = "endregion"
    /\ processed' = Append(processed, states[pos])
    /\ pos' = pos + 1
    /\ pc' = "loop"
    /\ calls' = 0
    /\ regionSteps' = <<>>
    /\ tigerResult' = "none"
    /\ UNCHANGED <<main, exc, dirs, tiger, call, task, retval, anyRetrieve,
                   extracted>>

Next ==
    \/ \E args \in ArgLists : Launch(args)
    \/ Exit
    \/ MakeDirs
    \/ Finish
    \/ BeginRegion
    \/ StartAttempt
    \/ AttemptSucceeds
    \/ AttemptFails
    \/ Sleep
    \/ Exhaust
    \/ Return
    \/ Unzip
    \/ Remove
    \/ SelectYear
    \/ CallWac
    \/ EndRegion

Spec == Init /\ [][Next]_vars

TypeOK ==
    /\ run \in 0..MaxRuns
    /\ pc \in {"idle", "mkdirs", "loop", "retrieve", "unzip", "remove", "lodes",
               "wac", "endregion", "done", "aborted"}
    /\ task \in {"NONE", "PENDING", "ATTEMPTING", "FAILED", "BACKOFF",
                 "SUCCEEDED", "EXHAUSTED"}
    /\ i \in 0..(MaxAttempts - 1)
    /\ dirs \subseteq DirNames

----------------------------------------------------------------------------
(* Properties of retrieve *)

\* A call that has succeeded only returns: to the statement after the call,
\* with no further attempt and no exception
SucceededOnlyReturns ==
    task = "SUCCEEDED" =>
        /\ task' \in {"SUCCEEDED", "NONE"}
        /\ attempts' \in {attempts, 0}
        /\ pc' \in {"retrieve", "unzip", "wac", "endregion"}
        /\ exc' = "none"

\* C1: a retrieve call whose transfer fails N times (N < 50) and then
\* succeeds has made exactly N+1 attempts when it succeeds, makes no further
\* attempt, and returns to the statement after the call with no exception.
C1_ExactlyNPlusOneAttempts ==
    /\ [](task = "SUCCEEDED" =>
            (attempts = failures + 1 /\ failures < 50 /\ pc = "retrieve" /\ exc = "none"))
    /\ [][SucceededOnlyReturns]_vars

\* A call that succeeds on its 50th attempt, after 49 failures
C1_Witness == task = "SUCCEEDED" /\ failures = 49 /\ attempts = 50

\* Leaving retrieve looks the same to the caller after success and after
\* exhaustion: the same value, no exception, the same next statement
SameReturnEitherWay ==
    (task \in {"SUCCEEDED", "EXHAUSTED"} /\ task' # task) =>
        /\ task' = "NONE"
        /\ retval' = "None"
        /\ exc' = "none"
        /\ pc' = (IF site = "tiger" THEN "unzip"
                  ELSE IF site = "rac" THEN "wac" ELSE "endregion")

\* C2: a retrieve call whose transfer fails every time makes exactly 50
\* attempts and stops; it never makes a 51st, raises nothing, and returns
\* the same value to the same next statement as a successful call does.
C2_ExhaustedIsSilent ==
    /\ [](attempts <= 50)
    /\ [](task = "EXHAUSTED" =>
            (attempts = 50 /\ failures = 50 /\ pc = "retrieve" /\ exc = "none"))
    /\ [][SameReturnEitherWay]_vars

\* A call that has used up its attempts
C2_Witness == task = "EXHAUSTED" /\ attempts = 50 /\ site = "rac"

\* The task state machine, and where time is spent sleeping
TaskStep ==
    /\ task = "PENDING" => task' \in {"PENDING", "ATTEMPTING"}
    /\ task = "ATTEMPTING" => task' \in {"ATTEMPTING", "FAILED", "SUCCEEDED"}
    /\ task = "FAILED" => task' \in {"FAILED", "BACKOFF"}
    /\ task = "BACKOFF" => task' \in {"BACKOFF", "ATTEMPTING", "EXHAUSTED"}
    /\ task \in {"SUCCEEDED", "EXHAUSTED"} => task' \in {task, "NONE"}
    /\ (task = "FAILED" /\ task' = "BACKOFF") => slept' = slept + 5
    /\ ~(task = "FAILED" /\ task' = "BACKOFF") => slept' \in {slept, 0}

\* C10: every failed attempt is followed by exactly one pause of 5 before
\* the next attempt, no pause follows a success, the pause does not grow,
\* and a task moves PENDING -> (ATTEMPTING -> FAILED -> BACKOFF)* ->
\* (SUCCEEDED | EXHAUSTED), pausing after the 50th failure too.
C10_FixedBackoff ==
    /\ [](slept = 5 * pauses)
    /\ [](task = "FAILED" => pauses = failures - 1)
    /\ [](task \in {"PENDING", "ATTEMPTING", "BACKOFF", "SUCCEEDED", "EXHAUSTED"}
            => pauses = failures)
    /\ [](task = "EXHAUSTED" => (pauses = 50 /\ slept = 250))
    /\ [][TaskStep]_vars

\* The pause after the 50th failure has been taken
C10_Witness == task = "EXHAUSTED" /\ pauses = 50 /\ slept = 250

----------------------------------------------------------------------------
(* Properties of the run *)

AK == <<"A", "K">>
SD == <<"S", "D">>
PR == <<"P", "R">>
VI == <<"V", "I">>

\* C5: on a fresh output path the run creates exactly tiger, jobs and
\* workforce before it calls retrieve; a later run on the same path fails at
\* directory creation and never calls retrieve or attempts a transfer.
C5_DirectoryLayout ==
    /\ anyRetrieve => (dirs = {"tiger", "jobs", "workforce"} /\ dirsAtLaunch = {})
    /\ (run >= 1 /\ dirsAtLaunch = {} /\ pc \notin {"mkdirs", "idle"}) =>
            (dirs = {"tiger", "jobs", "workforce"} /\ exc # "FileExistsError")
    /\ (run >= 2 /\ pc \notin {"mkdirs", "idle"}) =>
            /\ pc = "aborted"
            /\ exc = "FileExistsError"
            /\ ~anyRetrieve
            /\ task = "NONE"
            /\ attempts = 0

\* A second run, on a path a first run has populated, has failed
C5_Witness ==
    run = 2 /\ pc = "aborted" /\ exc = "FileExistsError" /\ DOMAIN tiger # {}

HasSlash(name) == \E n \in 1..Len(name) : name[n] = "/"

\* name is what follows the last slash of member
IsBaseOf(name, member) ==
    /\ ~HasSlash(name)
    /\ Len(name) <= Len(member)
    /\ name = SubSeq(member, Len(member) - Len(name) + 1, Len(member))
    /\ (Len(name) < Len(member) => member[Len(member) - Len(name)] = "/")

AllSteps == <<"archive", "extract", "remove", "rac", "wac">>

\* The order of steps: within a region, and region after region
OrderedStep ==
    /\ attempts' = attempts + 1 =>
            /\ processed = SubSeq(states, 1, pos - 1)
            /\ path.state = states[pos]
            /\ Len(regionSteps) = (IF site = "tiger" THEN 0
                                   ELSE IF site = "rac" THEN 3 ELSE 4)
    /\ regionSteps' # regionSteps =>
            \/ regionSteps' = <<>>
            \/ /\ Len(regionSteps) < 5
               /\ regionSteps' = Append(regionSteps, AllSteps[Len(regionSteps) + 1])
    /\ processed' # processed =>
            \/ processed' = <<>>
            \/ /\ processed' = Append(processed, states[pos])
               /\ pos' = pos + 1
               /\ regionSteps = (IF states[pos] \in {PR, VI}
                                 THEN SubSeq(AllSteps, 1, 3) ELSE AllSteps)

\* C9: regions are processed one after another in the order given; every
\* step of a region is complete before the first transfer attempt of the
\* next, and within a region the steps are archive retrieval, extraction,
\* archive removal, rac retrieval, wac retrieval, in that order.
C9_SequentialOrder ==
    /\ [](processed = SubSeq(states, 1, pos - 1))
    /\ [](Len(regionSteps) <= 5 /\ regionSteps = SubSeq(AllSteps, 1, Len(regionSteps)))
    /\ [][OrderedStep]_vars

\* The second region's last download is under way after the first region
C9_Witness ==
    /\ Len(states) = 2
    /\ processed = <<states[1]>>
    /\ pc = "retrieve"
    /\ site = "wac"
    /\ task = "ATTEMPTING"

----------------------------------------------------------------------------
(* Properties of the work list *)

\* The only region argument is ALL, in some letter case
OnlyArgIsAll ==
    /\ run >= 1
    /\ Len(argv) = 1
    /\ Len(argv[1]) = 3
    /\ argv[1][1] \in {"a", "A"}
    /\ argv[1][2] \in {"l", "L"}
    /\ argv[1][3] \in {"l", "L"}

Occurrences(seq, x) == Cardinality({n \in 1..Len(seq) : seq[n] = x})

\* A region joins the processed ones only if it is not among them yet
ProcessedOnce ==
    (OnlyArgIsAll /\ processed' # processed) =>
        \/ processed' = <<>>
        \/ /\ Len(processed') = Len(processed) + 1
           /\ processed = SubSeq(processed', 1, Len(processed))
           /\ Occurrences(processed, processed'[Len(processed')]) = 0

\* C4, as amended: when the only region argument is ALL in any letter case,
\* the work list is exactly the key set of fipsCodes, which has 55 entries,
\* each once; no region is processed twice, and a run that reaches its end
\* has processed each of the 55 exactly once.
C4_AllRegions ==
    /\ [](OnlyArgIsAll =>
            /\ {states[n] : n \in 1..Len(states)} = DOMAIN fipsCodes
            /\ Cardinality(DOMAIN fipsCodes) = 55
            /\ Len(states) = 55
            /\ (pc = "done" => \A c \in DOMAIN fipsCodes : Occurrences(processed, c) = 1))
    /\ [][ProcessedOnce]_vars

\* C4, as claimed: the same with a table of 56 entries
C4_AsClaimed ==
    OnlyArgIsAll =>
        /\ {states[n] : n \in 1..Len(states)} = DOMAIN fipsCodes
        /\ Cardinality(DOMAIN fipsCodes) = 56
        /\ Len(states) = 56
        /\ pc = "done" => \A c \in DOMAIN fipsCodes : Occurrences(processed, c) = 1

\* A run over ALL has reached its end
C4_Witness == OnlyArgIsAll /\ argv[1] # ALL /\ pc = "done" /\ Len(processed) = 55

\* C3, as claimed: when the list holds an unrecognized code together with
\* recognized ones, the unrecognized code is reported and every recognized
\* code of the list, wherever it stands, is processed.  (Runs ended by a
\* directory or archive failure are left aside.)
C3_AsClaimed ==
    (/\ pc \in {"done", "aborted"}
     /\ exc \in {"none", "KeyError"}
     /\ Len(invalidStates) > 0
     /\ \E n \in 1..Len(states) : states[n] \in DOMAIN fipsCodes)
    => /\ stdout = <<invalidStates>>
       /\ \A n \in 1..Len(states) :
              states[n] \in DOMAIN fipsCodes => Occurrences(processed, states[n]) >= 1

\* C8, as claimed: when the archive retrieval of a region ends EXHAUSTED,
\* the archive is not opened for extraction and the run is not aborted.
C8_AsClaimed ==
    tigerResult = "EXHAUSTED" =>
        /\ pc # "aborted"
        /\ exc \notin {"FileNotFoundError", "BadZipFile", "IsADirectoryError"}

====
